---- MODULE Spec2Model ----
(***************************************************************************)
(* Verification model of the home_vision repository:                       *)
(*   - nodes/spotlight_controller.py : the doorway spotlight controller    *)
(*   - vision/fuse_vision.py         : the vision / PIR fusion service     *)
(*                                                                         *)
(* Units.  Brightness is an integer percentage (0.85 -> 85, the clamp      *)
(* range [0.0, 1.0] -> [0, 100]).  Angles are integer degrees.  Time is an *)
(* integer number of half seconds (1.0 s -> 2).  Normalised frame          *)
(* coordinates are integer hundredths (0.35 -> 35).  All comparisons of    *)
(* the source are kept as they are on these scaled integers.               *)
(***************************************************************************)
EXTENDS Integers, Sequences, FiniteSets, TLC

\* ------------------------------------------------------------------------
\* Bounds of the model
\* ------------------------------------------------------------------------
\* Last clock value of the spotlight model.
MaxSpotTime == 4

\* ------------------------------------------------------------------------
\* Spotlight controller: configuration
\* ------------------------------------------------------------------------
Max(a, b) == IF a >= b THEN a ELSE b
Min(a, b) == IF a <= b THEN a ELSE b

\* SpotlightConfig defaults (angles, in degrees).
servo_pan_angle == -20
servo_tilt_angle == -5
servo_rest_pan == 0
servo_rest_tilt == 0
servo_min_angle == -90
servo_max_angle == 90

\* Values of the configuration file that load_config copies unvalidated
\* into the dataclass: the default 85 / 0, an over-range brightness,
\* an under-range and a non-zero rest brightness.
BrightnessValues == {85, 150}
RestBrightnessValues == {0, -10, 20}
LightHoldValues == {0, 2}

SpotlightConfig ==
    [brightness : BrightnessValues,
     rest_brightness : RestBrightnessValues,
     light_hold_seconds : LightHoldValues,
     auto_rest : BOOLEAN,
     servo_pan_angle : {servo_pan_angle},
     servo_tilt_angle : {servo_tilt_angle},
     servo_rest_pan : {servo_rest_pan},
     servo_rest_tilt : {servo_rest_tilt},
     servo_min_angle : {servo_min_angle},
     servo_max_angle : {servo_max_angle}]

\* Configuration files with angles outside the servo range and with a
\* narrower range, servo_min_angle <= servo_max_angle.
AngleConfigs ==
    [brightness : BrightnessValues,
     rest_brightness : {-10},
     light_hold_seconds : {2},
     auto_rest : {TRUE},
     servo_pan_angle : {servo_pan_angle, 120},
     servo_tilt_angle : {servo_tilt_angle},
     servo_rest_pan : {servo_rest_pan},
     servo_rest_tilt : {-100},
     servo_min_angle : {servo_min_angle, -30},
     servo_max_angle : {servo_max_angle}]

\* Topic lists after ensure_topics(); "events/person/both" stands for a topic
\* an operator put in both lists, "events/other" for one in neither.
trigger_on_topics == <<"events/person/bedroom/out", "events/person/both">>
trigger_off_topics == <<"events/person/bathroom/in", "events/person/both">>
SpotTopics ==
    {"events/person/bedroom/out", "events/person/bathroom/in",
     "events/person/both", "events/other"}

InList(x, list) == \E i \in 1..Len(list) : list[i] = x

Threads == {"bus", "main"}

VARIABLES
    config,             \* SpotlightController._config
    last_on,            \* SpotlightController._last_on
    current_brightness, \* SpotlightController._current_brightness
    lock,               \* SpotlightController._lock: "free" or the holder
    led_value,          \* value last written to the LED
    pan_angle,          \* value last written to the pan servo
    tilt_angle,         \* value last written to the tilt servo
    pc,                 \* position of each thread
    call,               \* controller method each thread last entered
    writes,             \* hardware writes issued by that call, in order
    repeat_act,         \* the running activate() follows a returned
                        \* activate() with no deactivate() in between
    act_done,           \* an activate() returned and no deactivate() began since
    stop_event,         \* main: stop_event.is_set()
    connected,          \* the bus client is connected and its loop runs
    hw_shutdown,        \* SpotlightHardware.shutdown() has run
    msg,                \* topic and payload of the last message delivered
    trigger_time,       \* time.time() when _activate last took the lock
    cal,                \* command line of calibration mode, and its deadline
    args,               \* arguments of the pure function applied
    result,             \* its results
    now                 \* time.time()

sideVars == <<cal, args, result>>

lifeVars ==
    <<stop_event, connected, hw_shutdown, msg, trigger_time, sideVars>>

spotVars ==
    <<config, last_on, current_brightness, lock, led_value, pan_angle,
      tilt_angle, pc, call, writes, repeat_act, act_done, lifeVars>>

VARIABLES
    last_centroid,        \* VisionFusionService._last_centroid
    last_cross_time,      \* VisionFusionService._last_cross_time
    last_presence_state,  \* VisionFusionService._last_presence_state
    presence_enter_time,  \* VisionFusionService._presence_enter_time
    presence_exit_start,  \* VisionFusionService._presence_exit_start
    pir_last_on,          \* VisionFusionService._pir_last_on
    event_queue,          \* MqttClient._event_queue
    vpc,                  \* position of the fusion loop in its iteration
    pub_crossing,         \* crossing events published in this iteration
    pub_presence,         \* presence events published in this iteration
    pres_log,             \* `present` of every presence event published
    cross_pub,            \* per door, ts of its last two published crossings
    frame,                \* what the last processed frame matched and emitted
    pir_seen,             \* per zone, an ON pulse has been drained
    obs,                  \* the current run of alike presence observations
    mqtt,                 \* MqttClient: "new", "running", "dead" (its loop
                          \* thread ended by an exception) or "stopped"
    camera,               \* VisionFusionService._camera: "none", "running"
                          \* or "stopped"
    inbound,              \* the last message handed to MqttClient._on_message
    polled                \* the events poll_event returned in the last drain

visionVars ==
    <<last_centroid, last_cross_time, last_presence_state,
      presence_enter_time, presence_exit_start, pir_last_on, event_queue,
      vpc, pub_crossing, pub_presence, pres_log, cross_pub, frame, pir_seen,
      obs, mqtt, camera, inbound, polled>>

vars == <<now, spotVars, visionVars>>

\* ------------------------------------------------------------------------
\* SpotlightHardware
\* ------------------------------------------------------------------------
_clamp_angle_upper_only(angle) == Min(config.servo_max_angle, angle)
_clamp_angle(angle) ==
    Max(config.servo_min_angle, Min(config.servo_max_angle, angle))

ClampBrightness_unclamped(value) == value
ClampBrightness(value) == Max(0, Min(100, value))

\* set_orientation: both servos are written with the clamped angles.
set_orientation(t, pan, tilt) ==
    /\ pan_angle' = _clamp_angle(pan)
    /\ tilt_angle' = _clamp_angle(tilt)
    /\ writes' = [writes EXCEPT ![t] = Append(@, "servo")]
    /\ UNCHANGED led_value

\* set_brightness: the LED is written with the clamped value.
set_brightness(t, value) ==
    /\ led_value' = ClampBrightness(value)
    /\ writes' = [writes EXCEPT ![t] = Append(@, "led")]
    /\ UNCHANGED <<pan_angle, tilt_angle>>

\* ------------------------------------------------------------------------
\* SpotlightController
\* ------------------------------------------------------------------------
\* No calibration: main() was started without --set-orientation.
NoCal ==
    [mode |-> "none", brightness |-> [given |-> FALSE, value |-> 0],
     duration |-> 0, until |-> 0]

\* No static function is being applied.
NoCall == args = << >> /\ result = << >>

\* State after SpotlightController.__init__; the PWMLED and the two
\* AngularServo objects are constructed without an initial value, which
\* leaves them at 0.
SpotInit(configs) ==
    /\ config \in configs
    /\ last_on = 0
    /\ current_brightness = config.rest_brightness
    /\ lock = "free"
    /\ led_value = 0
    /\ pan_angle = 0
    /\ tilt_angle = 0
    /\ pc = [t \in Threads |-> IF t = "main" THEN "start" ELSE "stopped"]
    /\ call = [t \in Threads |-> "none"]
    /\ writes = [t \in Threads |-> << >>]
    /\ repeat_act = FALSE
    /\ act_done = FALSE
    /\ stop_event = FALSE
    /\ connected = FALSE
    /\ hw_shutdown = FALSE
    /\ msg = [topic |-> "none", payload |-> "none"]
    /\ trigger_time = 0
    /\ cal = NoCal
    /\ now = 0

\* start(): servos to rest, LED to rest, connect, loop_start (the bus thread
\* begins to deliver messages).  connect() raises when the broker cannot be
\* reached; main() calls start() before its try block, so the exception
\* leaves main().
Start(connect_ok) ==
    /\ pc["main"] = "start"
    /\ UNCHANGED <<visionVars, stop_event, hw_shutdown, msg, trigger_time,
                   sideVars>>
    /\ connected' = connect_ok
    /\ pan_angle' = _clamp_angle(config.servo_rest_pan)
    /\ tilt_angle' = _clamp_angle(config.servo_rest_tilt)
    /\ led_value' = ClampBrightness(config.rest_brightness)
    /\ writes' = [writes EXCEPT !["main"] = <<"servo", "led">>]
    /\ call' = [call EXCEPT !["main"] = "start"]
    /\ pc' = IF connect_ok
               THEN [main |-> "loop", bus |-> "idle"]
               ELSE [main |-> "failed", bus |-> "stopped"]
    /\ UNCHANGED <<config, last_on, current_brightness, lock, repeat_act,
                   act_done, now>>

\* threading.Lock.acquire(): succeeds only when nobody holds the lock, the
\* caller included (the lock is not reentrant).
LockAvailable_always(t) == TRUE
LockAvailable(t) == lock = "free"

\* The position a thread returns to when the method it called from the
\* top level returns.
ReturnPc(t) == IF t = "main" THEN "loop" ELSE "idle"

\* msg.payload.decode("utf-8") raises UnicodeDecodeError on bytes that are
\* not UTF-8; json.loads raises JSONDecodeError on text that is not JSON.
\* Only the second is caught (line 195).
SpotPayloads == {"json", "not_json", "not_utf8"}

DecodeRaises(payload) == payload = "not_utf8"

\* _on_message: decode the payload, then dispatch on the topic; trigger-on
\* is tested first.  An exception that leaves the callback is handed to the
\* bus library, whose loop thread either carries on or ends.
OnMessage(topic, payload) ==
    /\ pc["bus"] = "idle"
    /\ pc["main"] # "join"
    /\ UNCHANGED <<visionVars, stop_event, connected, hw_shutdown,
                   trigger_time, sideVars>>
    /\ msg' = [topic |-> topic, payload |-> payload]
    /\ IF DecodeRaises(payload)
         THEN /\ call' = [call EXCEPT !["bus"] = "raised"]
              /\ writes' = [writes EXCEPT !["bus"] = << >>]
              /\ \E next \in {"idle", "dead"} :
                    pc' = [pc EXCEPT !["bus"] = next]
              /\ UNCHANGED <<act_done, repeat_act>>
       ELSE IF InList(topic, trigger_on_topics)
         THEN /\ pc' = [pc EXCEPT !["bus"] = "a_acquire"]
              /\ call' = [call EXCEPT !["bus"] = "activate"]
              /\ writes' = [writes EXCEPT !["bus"] = << >>]
              /\ repeat_act' = act_done
              /\ UNCHANGED act_done
         ELSE IF InList(topic, trigger_off_topics)
           THEN /\ pc' = [pc EXCEPT !["bus"] = "d_acquire"]
                /\ call' = [call EXCEPT !["bus"] = "deactivate"]
                /\ writes' = [writes EXCEPT !["bus"] = << >>]
                /\ act_done' = FALSE
                /\ repeat_act' = FALSE
           ELSE /\ call' = [call EXCEPT !["bus"] = "ignored"]
                /\ writes' = [writes EXCEPT !["bus"] = << >>]
                /\ UNCHANGED <<pc, act_done, repeat_act>>
    /\ UNCHANGED <<config, last_on, current_brightness, lock, led_value,
                   pan_angle, tilt_angle, now>>

\* `with self._lock:` on entry of _activate, _deactivate and periodic.
Acquire(t) ==
    /\ pc[t] \in {"a_acquire", "d_acquire", "p_acquire"}
    /\ UNCHANGED <<visionVars, lifeVars>>
    /\ LockAvailable(t)
    /\ lock' = t
    /\ pc' = [pc EXCEPT ![t] = CASE pc[t] = "a_acquire" -> "a_body"
                                 [] pc[t] = "d_acquire" -> "d_body"
                                 [] OTHER -> "p_body"]
    /\ UNCHANGED <<config, last_on, current_brightness, led_value, pan_angle,
                   tilt_angle, call, writes, repeat_act, act_done, now>>

\* _activate, lines 207-209: refresh last_on, return when already active.
AlreadyActive_never == FALSE
AlreadyActive == current_brightness = config.brightness

\* _activate, line 207: the value stored in _last_on.
LastOnStored_first_only == IF AlreadyActive THEN last_on ELSE now
LastOnStored == now

ActivateEnter(t) ==
    /\ pc[t] = "a_body"
    /\ UNCHANGED <<visionVars, stop_event, connected, hw_shutdown, msg,
                   sideVars>>
    /\ trigger_time' = now
    /\ last_on' = LastOnStored
    /\ IF AlreadyActive
         THEN /\ lock' = "free"
              /\ pc' = [pc EXCEPT ![t] = ReturnPc(t)]
              /\ act_done' = TRUE
         ELSE /\ pc' = [pc EXCEPT ![t] = "a_orient"]
              /\ UNCHANGED <<lock, act_done>>
    /\ UNCHANGED <<config, current_brightness, led_value, pan_angle,
                   tilt_angle, call, writes, repeat_act, now>>

\* _activate, lines 210-213.
ActivateOrient(t) ==
    /\ pc[t] = "a_orient"
    /\ UNCHANGED <<visionVars, lifeVars>>
    /\ set_orientation(t, config.servo_pan_angle, config.servo_tilt_angle)
    /\ pc' = [pc EXCEPT ![t] = "a_led"]
    /\ UNCHANGED <<config, last_on, current_brightness, lock, call,
                   repeat_act, act_done, now>>

\* _activate, line 214.
ActivateLed(t) ==
    /\ pc[t] = "a_led"
    /\ UNCHANGED <<visionVars, lifeVars>>
    /\ set_brightness(t, config.brightness)
    /\ pc' = [pc EXCEPT ![t] = "a_store"]
    /\ UNCHANGED <<config, last_on, current_brightness, lock, call,
                   repeat_act, act_done, now>>

\* _activate, line 215, and the release of the lock on leaving `with`.
ActivateStore(t) ==
    /\ pc[t] = "a_store"
    /\ UNCHANGED <<visionVars, lifeVars>>
    /\ current_brightness' = config.brightness
    /\ lock' = "free"
    /\ pc' = [pc EXCEPT ![t] = ReturnPc(t)]
    /\ act_done' = TRUE
    /\ UNCHANGED <<config, last_on, led_value, pan_angle, tilt_angle, call,
                   writes, repeat_act, now>>

\* _deactivate, lines 219-220: return when already at rest.
AlreadyAtRest_never == FALSE
AlreadyAtRest == current_brightness = config.rest_brightness

\* Leaving the `with` of _deactivate releases the lock; on the main thread
\* the caller is periodic(), which then leaves its own `with`.
DeactivateReturn(t) ==
    /\ lock' = "free"
    /\ pc' = [pc EXCEPT ![t] = ReturnPc(t)]

DeactivateEnter(t) ==
    /\ pc[t] = "d_body"
    /\ UNCHANGED <<visionVars, lifeVars>>
    /\ IF AlreadyAtRest
         THEN DeactivateReturn(t)
         ELSE /\ pc' = [pc EXCEPT ![t] = "d_led"]
              /\ UNCHANGED lock
    /\ UNCHANGED <<config, last_on, current_brightness, led_value, pan_angle,
                   tilt_angle, call, writes, repeat_act, act_done, now>>

\* _deactivate, line 221.
DeactivateLed(t) ==
    /\ pc[t] = "d_led"
    /\ UNCHANGED <<visionVars, lifeVars>>
    /\ set_brightness(t, config.rest_brightness)
    /\ pc' = [pc EXCEPT ![t] = "d_store"]
    /\ UNCHANGED <<config, last_on, current_brightness, lock, call,
                   repeat_act, act_done, now>>

\* _deactivate, lines 222-223.
DeactivateStore(t) ==
    /\ pc[t] = "d_store"
    /\ UNCHANGED <<visionVars, lifeVars>>
    /\ current_brightness' = config.rest_brightness
    /\ IF config.auto_rest
         THEN /\ pc' = [pc EXCEPT ![t] = "d_orient"]
              /\ UNCHANGED lock
         ELSE DeactivateReturn(t)
    /\ UNCHANGED <<config, last_on, led_value, pan_angle, tilt_angle, call,
                   writes, repeat_act, act_done, now>>

\* _deactivate, lines 224-227.
DeactivateOrient(t) ==
    /\ pc[t] = "d_orient"
    /\ UNCHANGED <<visionVars, lifeVars>>
    /\ set_orientation(t, config.servo_rest_pan, config.servo_rest_tilt)
    /\ DeactivateReturn(t)
    /\ UNCHANGED <<config, last_on, current_brightness, call, repeat_act,
                   act_done, now>>

\* main, line 351, and periodic, lines 230-231: the loop calls periodic()
\* while the stop flag is clear; nothing to do without a hold window.
PeriodicEnter ==
    /\ pc["main"] = "loop"
    /\ ~stop_event
    /\ UNCHANGED <<visionVars, lifeVars>>
    /\ call' = [call EXCEPT !["main"] = "periodic"]
    /\ writes' = [writes EXCEPT !["main"] = << >>]
    /\ pc' = [pc EXCEPT !["main"] =
                IF config.light_hold_seconds <= 0 THEN "loop" ELSE "p_acquire"]
    /\ UNCHANGED <<config, last_on, current_brightness, lock, led_value,
                   pan_angle, tilt_angle, repeat_act, act_done, now>>

\* periodic, line 235.
HoldExpired == now - last_on >= config.light_hold_seconds

\* periodic, lines 233-237, with the lock held: an expired hold calls
\* self._deactivate() from inside the `with` block.
PeriodicCheck ==
    /\ pc["main"] = "p_body"
    /\ UNCHANGED <<visionVars, lifeVars>>
    /\ IF current_brightness # config.brightness
         THEN /\ lock' = "free"
              /\ pc' = [pc EXCEPT !["main"] = "loop"]
              /\ UNCHANGED act_done
         ELSE IF HoldExpired
           THEN /\ pc' = [pc EXCEPT !["main"] = "d_acquire"]
                /\ act_done' = FALSE
                /\ UNCHANGED lock
           ELSE /\ lock' = "free"
                /\ pc' = [pc EXCEPT !["main"] = "loop"]
                /\ UNCHANGED act_done
    /\ UNCHANGED <<config, last_on, current_brightness, led_value, pan_angle,
                   tilt_angle, call, writes, repeat_act, now>>

\* handle_signal: SIGTERM or SIGINT sets the stop flag.
HandleSignal ==
    /\ pc["main"] \notin {"failed", "exited"}
    /\ cal.mode = "none"
    /\ ~stop_event
    /\ stop_event' = TRUE
    /\ UNCHANGED <<visionVars, connected, hw_shutdown, msg, trigger_time,
                   sideVars>>
    /\ UNCHANGED <<config, last_on, current_brightness, lock, led_value,
                   pan_angle, tilt_angle, pc, call, writes, repeat_act,
                   act_done, now>>

\* main, lines 351 and 354-355: the loop ends once the stop flag is set and
\* stop() runs.  loop_stop() tells the bus thread to end, so that no further
\* callback begins, and joins it.
StopLoop ==
    /\ pc["main"] = "loop"
    /\ stop_event
    /\ pc' = [pc EXCEPT !["main"] = "join"]
    /\ call' = [call EXCEPT !["main"] = "stop"]
    /\ UNCHANGED <<visionVars, lifeVars>>
    /\ UNCHANGED <<config, last_on, current_brightness, lock, led_value,
                   pan_angle, tilt_angle, writes, repeat_act, act_done, now>>

\* stop(), lines 180-182, once the bus thread has returned from the callback
\* in progress: disconnect and shut the hardware down.
StopJoin ==
    /\ pc["main"] = "join"
    /\ pc["bus"] \in {"idle", "dead"}
    /\ pc' = [main |-> "exited", bus |-> "stopped"]
    /\ connected' = FALSE
    /\ hw_shutdown' = TRUE
    /\ UNCHANGED <<visionVars, stop_event, msg, trigger_time, sideVars>>
    /\ UNCHANGED <<config, last_on, current_brightness, lock, led_value,
                   pan_angle, tilt_angle, call, writes, repeat_act, act_done,
                   now>>

\* Command lines of calibration mode: --set-orientation, --set-brightness
\* (omitted, 0.0 or an over-range value) and --duration (0 or 1.0 s).
CalModes == {"rest", "target"}
CalBrightness ==
    {[given |-> FALSE, value |-> 0], [given |-> TRUE, value |-> 0],
     [given |-> TRUE, value |-> 150]}
CalDurations == {0, 2}

\* run_orientation_mode, lines 291-298: the pose selected by the mode.
PosePan(mode) ==
    IF mode = "target" THEN config.servo_pan_angle ELSE config.servo_rest_pan
PoseTilt(mode) ==
    IF mode = "target" THEN config.servo_tilt_angle ELSE config.servo_rest_tilt
PoseBrightness(mode) ==
    IF mode = "target" THEN config.brightness ELSE config.rest_brightness

\* run_orientation_mode, line 301: `default_brightness if brightness is
\* None else brightness`.
Override_falsy(brightness, default_brightness) ==
    IF brightness.given /\ brightness.value # 0
      THEN brightness.value ELSE default_brightness
Override(brightness, default_brightness) ==
    IF brightness.given THEN brightness.value ELSE default_brightness

\* main, lines 330-336, and run_orientation_mode up to the hold: the
\* hardware is constructed and the pose and brightness applied; no bus
\* client is created.  An exception raised by the hardware inside the try
\* block runs `finally` and leaves main().
run_orientation_mode(mode, brightness, duration, raises) ==
    /\ pc["main"] = "start"
    /\ cal' = [mode |-> mode, brightness |-> brightness,
               duration |-> duration, until |-> now + duration]
    /\ IF raises
         THEN /\ hw_shutdown' = TRUE
              /\ pc' = [pc EXCEPT !["main"] = "failed"]
              /\ call' = [call EXCEPT !["main"] = "cal_raised"]
              /\ UNCHANGED <<pan_angle, tilt_angle, led_value, writes>>
         ELSE /\ pan_angle' = _clamp_angle(PosePan(mode))
              /\ tilt_angle' = _clamp_angle(PoseTilt(mode))
              /\ led_value' =
                   ClampBrightness(Override(brightness, PoseBrightness(mode)))
              /\ writes' = [writes EXCEPT !["main"] = <<"servo", "led">>]
              /\ pc' = [pc EXCEPT !["main"] = "cal_hold"]
              /\ call' = [call EXCEPT !["main"] = "cal_hold"]
              /\ UNCHANGED hw_shutdown
    /\ UNCHANGED <<visionVars, stop_event, connected, msg, trigger_time,
                   args, result>>
    /\ UNCHANGED <<config, last_on, current_brightness, lock, repeat_act,
                   act_done, now>>

\* run_orientation_mode, lines 313-322: the hold ends when the duration has
\* elapsed (a duration > 0) or on KeyboardInterrupt; `finally` shuts the
\* hardware down.
CalibrationExit(interrupt) ==
    /\ pc["main"] = "cal_hold"
    /\ interrupt \/ (cal.duration > 0 /\ now >= cal.until)
    /\ hw_shutdown' = TRUE
    /\ pc' = [pc EXCEPT !["main"] = "exited"]
    /\ call' = [call EXCEPT !["main"] =
                  IF interrupt THEN "cal_interrupt" ELSE "cal_timeout"]
    /\ UNCHANGED <<visionVars, stop_event, connected, msg, trigger_time,
                   sideVars>>
    /\ UNCHANGED <<config, last_on, current_brightness, lock, led_value,
                   pan_angle, tilt_angle, writes, repeat_act, act_done, now>>

CalibrationStep ==
    \/ \E mode \in CalModes, brightness \in CalBrightness,
          duration \in CalDurations, raises \in BOOLEAN :
            run_orientation_mode(mode, brightness, duration, raises)
    \/ \E interrupt \in BOOLEAN : CalibrationExit(interrupt)

\* The wall clock advances.
SpotTick ==
    /\ now < MaxSpotTime
    /\ UNCHANGED <<visionVars, lifeVars>>
    /\ now' = now + 1
    /\ UNCHANGED <<config, last_on, current_brightness, lock, led_value,
                   pan_angle, tilt_angle, pc, call, writes, repeat_act,
                   act_done>>

BusStep ==
    \/ \E topic \in SpotTopics, payload \in SpotPayloads :
         OnMessage(topic, payload)
    \/ Acquire("bus")
    \/ ActivateEnter("bus")
    \/ ActivateOrient("bus")
    \/ ActivateLed("bus")
    \/ ActivateStore("bus")
    \/ DeactivateEnter("bus")
    \/ DeactivateLed("bus")
    \/ DeactivateStore("bus")
    \/ DeactivateOrient("bus")

MainStep ==
    \/ \E connect_ok \in BOOLEAN : Start(connect_ok)
    \/ StopLoop
    \/ StopJoin
    \/ PeriodicEnter
    \/ Acquire("main")
    \/ PeriodicCheck
    \/ DeactivateEnter("main")
    \/ DeactivateLed("main")
    \/ DeactivateStore("main")
    \/ DeactivateOrient("main")

\* ------------------------------------------------------------------------
\* Vision fusion service: bounds and configuration
\* ------------------------------------------------------------------------
\* Last clock value of the fusion model watching the doors.
MaxCrossTime == 4
\* Last clock value of the fusion model watching the living room.
MaxPresenceTime == 9
\* Most messages waiting in the inbound queue.
MaxQueue == 1

\* FusionConfig defaults, in half seconds.
pir_boost_window == 4
detection_cooldown == 2
presence_hold_seconds == 6
presence_confirm_seconds == 1
pir_cross_window == 2

\* GeometryConfig defaults, in hundredths of the frame.
bed_door == <<<<15, 30>>, <<35, 30>>>>
bath_door == <<<<65, 40>>, <<85, 40>>>>
living_room_polygon == <<<<20, 35>>, <<80, 35>>, <<85, 90>>, <<15, 90>>>>

\* FusionConfig.mqtt_topics.
mqtt_topics ==
    [pir |-> "sensors/door/+/pir",
     vision_state |-> "vision/state/living_room",
     bed_event_out |-> "events/person/bedroom/out",
     bed_event_in |-> "events/person/bedroom/in",
     bath_event_out |-> "events/person/bathroom/out",
     bath_event_in |-> "events/person/bathroom/in"]

\* A frame with no accepted detection (no contour, too small, m00 == 0).
NoCentroid == << >>

\* Topics of the two door nodes, matching sensors/door/+/pir.
PirTopics == {"sensors/door/bedroom/pir", "sensors/door/bathroom/pir"}

\* `"bedroom" in topic`.
ContainsBedroom(topic) == topic = "sensors/door/bedroom/pir"

\* A `ts` that is not a number, as stored in _pir_last_on by line 315.
NotANumber == -1

\* JSON objects a PIR node sends, {state, ts?}; here without `ts`.
PirPayloads ==
    {[json |-> "object", state |-> "ON", has_ts |-> FALSE, ts |-> 0],
     [json |-> "object", state |-> "OFF", has_ts |-> FALSE, ts |-> 0]}

\* What else the bus may deliver on a PIR topic: an object whose `ts` is a
\* string, JSON values that are not objects (an array, null; a number or a
\* string behaves as they do), text that is not JSON and bytes that are not
\* UTF-8.
OtherPayloads ==
    {[json |-> "object", state |-> "ON", has_ts |-> TRUE, ts |-> NotANumber]}
    \cup {[json |-> k, state |-> "none", has_ts |-> FALSE, ts |-> 0] :
            k \in {"array", "null", "not_json", "not_utf8"}}

NoMessage == [topic |-> "none", json |-> "none"]

Doors == <<"bed", "bath">>
Zones == {"bedroom", "bathroom"}

\* ------------------------------------------------------------------------
\* Geometry
\* ------------------------------------------------------------------------
\* One edge of the ray cast, lines 142-146.  The quotient of the source is
\* compared by cross-multiplication; the divisor is non-zero whenever the
\* first conjunct holds.
EdgeIntersects(point, v1, v2) ==
    LET x == point[1]
        y == point[2]
        x1 == v1[1]
        y1 == v1[2]
        x2 == v2[1]
        y2 == v2[2]
    IN  /\ (y1 > y) # (y2 > y)
        /\ IF y2 - y1 > 0
             THEN (x - x1) * (y2 - y1) < (x2 - x1) * (y - y1)
             ELSE (x - x1) * (y2 - y1) > (x2 - x1) * (y - y1)

RECURSIVE RayCast(_, _, _, _)
RayCast(point, polygon, i, inside) ==
    IF i > Len(polygon)
      THEN inside
      ELSE LET v1 == polygon[i]
               v2 == polygon[(i % Len(polygon)) + 1]
           IN  RayCast(point, polygon, i + 1,
                       IF EdgeIntersects(point, v1, v2)
                         THEN ~inside ELSE inside)

point_in_polygon(point, polygon) == RayCast(point, polygon, 1, FALSE)

line_crossed(prev_point, curr_point, line) ==
    LET x1 == line[1][1]
        y1 == line[1][2]
        x2 == line[2][1]
        y2 == line[2][2]
        a == y1 - y2
        b == x2 - x1
        c == x1 * y2 - x2 * y1
        prev_side == a * prev_point[1] + b * prev_point[2] + c
        curr_side == a * curr_point[1] + b * curr_point[2] + c
        dot == (curr_point[1] - prev_point[1]) * a
               + (curr_point[2] - prev_point[2]) * b
    IN  IF prev_side = 0 \/ curr_side = 0 \/ prev_side * curr_side > 0
          THEN "none"
          ELSE IF dot > 0 THEN "into_living" ELSE "into_room"

\* ------------------------------------------------------------------------
\* Floating-point geometry
\* ------------------------------------------------------------------------
\* Python floats are IEEE 754 binary64 values: a sign, an integer magnitude
\* and a power of two, rounded to 53 significant bits after every operation
\* (round half to even).  Magnitudes are little-endian sequences of limbs
\* below LimbBase without a leading zero limb.
LimbBits == 15
LimbBase == 32768
Precision == 53

Limb(a, i) == IF i <= Len(a) THEN a[i] ELSE 0

RECURSIVE Trim(_)
Trim(a) ==
    IF a = << >> THEN a
    ELSE IF a[Len(a)] = 0 THEN Trim(SubSeq(a, 1, Len(a) - 1)) ELSE a

RECURSIVE AddFrom(_, _, _, _)
AddFrom(a, b, i, carry) ==
    IF i > Max(Len(a), Len(b))
      THEN IF carry = 0 THEN << >> ELSE <<carry>>
      ELSE LET s == Limb(a, i) + Limb(b, i) + carry
           IN  <<s % LimbBase>> \o AddFrom(a, b, i + 1, s \div LimbBase)

BigAdd(a, b) == AddFrom(a, b, 1, 0)

RECURSIVE SubFrom(_, _, _, _)
SubFrom(a, b, i, borrow) ==
    IF i > Len(a) THEN << >>
    ELSE LET d == a[i] - Limb(b, i) - borrow
         IN  IF d < 0 THEN <<d + LimbBase>> \o SubFrom(a, b, i + 1, 1)
             ELSE <<d>> \o SubFrom(a, b, i + 1, 0)

\* a - b for a >= b
BigSub(a, b) == Trim(SubFrom(a, b, 1, 0))

RECURSIVE CmpFrom(_, _, _)
CmpFrom(a, b, i) ==
    IF i = 0 THEN 0
    ELSE IF a[i] > b[i] THEN 1
    ELSE IF a[i] < b[i] THEN -1
    ELSE CmpFrom(a, b, i - 1)

BigCmp(a, b) ==
    IF Len(a) > Len(b) THEN 1
    ELSE IF Len(a) < Len(b) THEN -1
    ELSE CmpFrom(a, b, Len(a))

RECURSIVE MulSmallFrom(_, _, _, _)
MulSmallFrom(a, m, i, carry) ==
    IF i > Len(a)
      THEN IF carry = 0 THEN << >> ELSE <<carry>>
      ELSE LET p == a[i] * m + carry
           IN  <<p % LimbBase>> \o MulSmallFrom(a, m, i + 1, p \div LimbBase)

\* a * m for 0 <= m < LimbBase
BigMulSmall(a, m) == Trim(MulSmallFrom(a, m, 1, 0))

RECURSIVE MulFrom(_, _, _)
MulFrom(a, b, i) ==
    IF i > Len(b) THEN << >>
    ELSE BigAdd(BigMulSmall(a, b[i]), <<0>> \o MulFrom(a, b, i + 1))

BigMul(a, b) == Trim(MulFrom(a, b, 1))

BigShl(a, k) ==
    IF a = << >> THEN a
    ELSE [i \in 1..(k \div LimbBits) |-> 0]
           \o BigMulSmall(a, 2 ^ (k % LimbBits))

BigShr(a, k) ==
    LET d == k \div LimbBits
        j == k % LimbBits
        t == IF d >= Len(a) THEN << >> ELSE SubSeq(a, d + 1, Len(a))
    IN  Trim([i \in 1..Len(t) |->
                (t[i] \div (2 ^ j))
                + (Limb(t, i + 1) % (2 ^ j)) * (2 ^ (LimbBits - j))])

BitLen(a) ==
    IF a = << >> THEN 0
    ELSE LimbBits * (Len(a) - 1)
           + (CHOOSE k \in 1..LimbBits :
                2 ^ (k - 1) <= a[Len(a)] /\ a[Len(a)] < 2 ^ k)

\* The largest m < LimbBase with d * m <= r, found bit by bit.
RECURSIVE QuotientLimb(_, _, _, _)
QuotientLimb(r, d, bit, m) ==
    IF bit < 0 THEN m
    ELSE IF BigCmp(BigMulSmall(d, m + 2 ^ bit), r) <= 0
      THEN QuotientLimb(r, d, bit - 1, m + 2 ^ bit)
      ELSE QuotientLimb(r, d, bit - 1, m)

\* Long division, one limb of n at a time from the most significant.
RECURSIVE DivFrom(_, _, _, _, _)
DivFrom(n, d, i, q, r) ==
    IF i = 0 THEN [quot |-> Trim(q), rem |-> r]
    ELSE LET r2 == Trim(<<n[i]>> \o r)
             m == QuotientLimb(r2, d, LimbBits - 1, 0)
         IN  DivFrom(n, d, i - 1, <<m>> \o q,
                     BigSub(r2, BigMulSmall(d, m)))

\* floor(n / d) and the remainder, d # 0
BigDivMod(n, d) == DivFrom(n, d, Len(n), << >>, << >>)

float_zero == [neg |-> FALSE, mag |-> << >>, exp |-> 0]

\* Round mag * 2^exp (plus a non-zero fraction below the last bit when
\* sticky) to the nearest value with 53 significant bits, ties to even.
float_round(neg, mag, exp, sticky) ==
    IF mag = << >> THEN float_zero
    ELSE IF BitLen(mag) <= Precision
      THEN [neg |-> neg, mag |-> mag, exp |-> exp]
      ELSE LET s == BitLen(mag) - Precision
               q == BigShr(mag, s)
               r == BigSub(mag, BigShl(q, s))
               c == BigCmp(r, BigShl(<<1>>, s - 1))
               up == c > 0 \/ (c = 0 /\ (sticky \/ q[1] % 2 = 1))
           IN  [neg |-> neg,
                mag |-> IF up THEN BigAdd(q, <<1>>) ELSE q,
                exp |-> exp + s]

float(n) ==
    [neg |-> n < 0,
     mag |-> IF n = 0 THEN << >> ELSE <<IF n < 0 THEN -n ELSE n>>,
     exp |-> 0]

float_neg(a) == IF a.mag = << >> THEN a ELSE [a EXCEPT !.neg = ~a.neg]

float_add(a, b) ==
    IF a.mag = << >> THEN b
    ELSE IF b.mag = << >> THEN a
    ELSE LET e == Min(a.exp, b.exp)
             x == BigShl(a.mag, a.exp - e)
             y == BigShl(b.mag, b.exp - e)
             c == BigCmp(x, y)
         IN  IF a.neg = b.neg THEN float_round(a.neg, BigAdd(x, y), e, FALSE)
             ELSE IF c = 0 THEN float_zero
             ELSE IF c > 0 THEN float_round(a.neg, BigSub(x, y), e, FALSE)
             ELSE float_round(b.neg, BigSub(y, x), e, FALSE)

float_sub(a, b) == float_add(a, float_neg(b))

float_mul(a, b) ==
    IF a.mag = << >> \/ b.mag = << >> THEN float_zero
    ELSE float_round(a.neg # b.neg, BigMul(a.mag, b.mag), a.exp + b.exp, FALSE)

\* a / b for b # 0: the quotient is computed to at least 56 bits and the
\* remainder decides ties.
float_div(a, b) ==
    IF a.mag = << >> THEN float_zero
    ELSE LET k == Max(0, Precision + 3 + BitLen(b.mag) - BitLen(a.mag))
             dm == BigDivMod(BigShl(a.mag, k), b.mag)
         IN  float_round(a.neg # b.neg, dm.quot, a.exp - b.exp - k,
                   dm.rem # << >>)

float_less(a, b) ==
    IF a.mag = << >> THEN b.mag # << >> /\ ~b.neg
    ELSE IF b.mag = << >> THEN a.neg
    ELSE IF a.neg # b.neg THEN a.neg
    ELSE LET e == Min(a.exp, b.exp)
             c == BigCmp(BigShl(a.mag, a.exp - e), BigShl(b.mag, b.exp - e))
         IN  IF a.neg THEN c > 0 ELSE c < 0

float_is_zero(a) == a.mag = << >>

\* Largest pixel coordinate of the points, lines and polygons given to the
\* geometry functions.
MaxCoord == 3

\* normalize_point, lines 131-133: pixel k of a frame FrameSize pixels wide
\* and high; configured coordinates with two decimals are the same values.
FrameSize == 100
Coord == [k \in 0..MaxCoord |-> float_div(float(k), float(FrameSize))]
normalize_point(point) == <<Coord[point[1]], Coord[point[2]]>>

\* point_in_polygon, lines 142-146, one edge, in the arithmetic of the
\* source; `(y2 - y1) or 1e-6` is evaluated only when the first operand of
\* `and` holds, and then y2 - y1 is not zero.
FloatEdgeIntersects(point, v1, v2) ==
    LET x == point[1]
        y == point[2]
        x1 == v1[1]
        y1 == v1[2]
        x2 == v2[1]
        y2 == v2[2]
    IN  IF float_less(y, y1) # float_less(y, y2)
          THEN float_less(x,
                 float_add(float_div(float_mul(float_sub(x2, x1),
                                               float_sub(y, y1)),
                                     float_sub(y2, y1)),
                           x1))
          ELSE FALSE

RECURSIVE FloatRayCast(_, _, _, _)
FloatRayCast(point, polygon, i, inside) ==
    IF i > Len(polygon)
      THEN inside
      ELSE FloatRayCast(point, polygon, i + 1,
                        IF FloatEdgeIntersects(point, polygon[i],
                                               polygon[(i % Len(polygon)) + 1])
                          THEN ~inside ELSE inside)

\* point_in_polygon, lines 136-149, on pixel coordinates.
float_point_in_polygon(point, polygon) ==
    FloatRayCast(normalize_point(point),
                 [i \in 1..Len(polygon) |-> normalize_point(polygon[i])],
                 1, FALSE)

\* line_crossed, lines 152-178, on pixel coordinates.
float_line_crossed(prev_point, curr_point, line) ==
    LET prev == normalize_point(prev_point)
        curr == normalize_point(curr_point)
        x1 == normalize_point(line[1])[1]
        y1 == normalize_point(line[1])[2]
        x2 == normalize_point(line[2])[1]
        y2 == normalize_point(line[2])[2]
        a == float_sub(y1, y2)
        b == float_sub(x2, x1)
        c == float_sub(float_mul(x1, y2), float_mul(x2, y1))
        prev_side == float_add(float_add(float_mul(a, prev[1]),
                                         float_mul(b, prev[2])), c)
        curr_side == float_add(float_add(float_mul(a, curr[1]),
                                         float_mul(b, curr[2])), c)
        dot == float_add(float_mul(float_sub(curr[1], prev[1]), a),
                         float_mul(float_sub(curr[2], prev[2]), b))
    IN  IF \/ float_is_zero(prev_side)
           \/ float_is_zero(curr_side)
           \/ float_less(float_zero, float_mul(prev_side, curr_side))
          THEN "none"
          ELSE IF float_less(float_zero, dot)
                 THEN "into_living" ELSE "into_room"

\* ------------------------------------------------------------------------
\* VisionFusionService
\* ------------------------------------------------------------------------
NoFrame == [matched |-> "none", door |-> "none", due |-> FALSE]

NoRun == [kind |-> "none", start |-> 0, from |-> FALSE, last |-> 0, logged |-> 0]

\* State after VisionFusionService.__init__, before start().

VisionInit ==
    /\ last_centroid = NoCentroid
    /\ last_cross_time = [d \in {"bed", "bath"} |-> 0]
    /\ last_presence_state = FALSE
    /\ presence_enter_time = 0
    /\ presence_exit_start = 0
    /\ pir_last_on = [z \in Zones |-> 0]
    /\ event_queue = << >>
    /\ vpc = "start"
    /\ mqtt = "new"
    /\ camera = "none"
    /\ inbound = NoMessage
    /\ polled = << >>
    /\ pub_crossing = << >>
    /\ pub_presence = << >>
    /\ pres_log = << >>
    /\ cross_pub = [d \in {"bed", "bath"} |-> << >>]
    /\ frame = NoFrame
    /\ pir_seen = [z \in Zones |-> FALSE]
    /\ obs = NoRun

\* start(): the bus client connects and starts its loop, then the camera
\* is initialised.  _init_camera raises when the camera is not available;
\* main() calls start() before its try block, so the exception leaves
\* main().
VisionStart(camera_ok) ==
    /\ vpc = "start"
    /\ mqtt' = "running"
    /\ camera' = IF camera_ok THEN "running" ELSE "none"
    /\ vpc' = IF camera_ok THEN "drain" ELSE "failed"
    /\ UNCHANGED <<last_centroid, last_cross_time, last_presence_state,
                   presence_enter_time, presence_exit_start, pir_last_on,
                   event_queue, pub_crossing, pub_presence, pres_log,
                   cross_pub, frame, pir_seen, obs, inbound, polled, now,
                   spotVars>>

\* stop(), reached through `finally` when an exception leaves the loop.
ServiceStop ==
    /\ mqtt' = "stopped"
    /\ camera' = "stopped"
    /\ vpc' = "aborted"

\* MqttClient._on_message, lines 217-218: decode("utf-8") and json.loads.
Decodes_always(payload) == TRUE
Decodes(payload) == payload.json \notin {"not_json", "not_utf8"}

\* MqttClient._on_message on the bus thread: a payload that parses as JSON
\* is put on the queue with its topic.  JSONDecodeError is caught and the
\* payload dropped; UnicodeDecodeError is not caught and is handed to the
\* bus library, whose loop thread either carries on or ends.
PirMessage(topic, payload) ==
    /\ mqtt = "running"
    /\ vpc \in {"drain", "frame"}
    /\ IF Decodes(payload)
         THEN /\ event_queue' =
                   Append(event_queue,
                          [topic |-> topic, json |-> payload.json,
                           state |-> payload.state,
                           has_ts |-> payload.has_ts, ts |-> payload.ts])
              /\ UNCHANGED mqtt
         ELSE /\ UNCHANGED event_queue
              /\ IF payload.json = "not_utf8"
                   THEN mqtt' \in {"running", "dead"}
                   ELSE UNCHANGED mqtt
    /\ UNCHANGED <<last_centroid, last_cross_time, last_presence_state,
                   presence_enter_time, presence_exit_start, pir_last_on,
                   vpc, pub_crossing, pub_presence, pres_log, cross_pub,
                   frame, pir_seen, obs, camera, now, spotVars>>

\* _handle_pir_events, lines 313-315, for one queued event.
PirZone(topic) == IF ContainsBedroom(topic) THEN "bedroom" ELSE "bathroom"

PirStamp_receipt_time(event) == now
PirStamp(event) == IF event.has_ts THEN event.ts ELSE now

\* payload.get exists only when the payload is a JSON object (a dict).
HasGet(event) == event.json = "object"

\* Index of the first queued event on which payload.get raises, 0 if none.
RECURSIVE FirstRaising(_, _)
FirstRaising(queue, i) ==
    IF i > Len(queue)
      THEN 0
      ELSE IF HasGet(queue[i]) THEN FirstRaising(queue, i + 1) ELSE i

RECURSIVE DrainLastOn(_, _)
DrainLastOn(queue, lastOn) ==
    IF queue = << >>
      THEN lastOn
      ELSE LET event == Head(queue)
               zone == PirZone(event.topic)
           IN  DrainLastOn(Tail(queue),
                           IF event.state = "ON"
                             THEN [lastOn EXCEPT ![zone] = PirStamp(event)]
                             ELSE lastOn)

\* The events poll_event returns in one call of _handle_pir_events: all of
\* the queue, or those up to the one that makes the handler raise.
Polled ==
    LET bad == FirstRaising(event_queue, 1)
    IN  IF bad = 0 THEN event_queue ELSE SubSeq(event_queue, 1, bad)

\* _handle_pir_events: poll until the queue is empty.  A new loop iteration
\* begins here.  An exception leaves the loop and main() through `finally`.
HandlePirEvents ==
    /\ vpc = "drain"
    /\ LET bad == FirstRaising(event_queue, 1)
           handled == IF bad = 0
                        THEN event_queue
                        ELSE SubSeq(event_queue, 1, bad - 1)
       IN  /\ pir_last_on' = DrainLastOn(handled, pir_last_on)
           /\ pir_seen' =
                [z \in Zones |->
                   \/ pir_seen[z]
                   \/ \E i \in 1..Len(handled) :
                        /\ handled[i].state = "ON"
                        /\ PirZone(handled[i].topic) = z]
           /\ IF bad = 0
                THEN /\ event_queue' = << >>
                     /\ vpc' = "frame"
                     /\ UNCHANGED <<mqtt, camera>>
                ELSE /\ event_queue' =
                          SubSeq(event_queue, bad + 1, Len(event_queue))
                     /\ ServiceStop
    /\ pub_crossing' = << >>
    /\ pub_presence' = << >>
    /\ frame' = NoFrame
    /\ UNCHANGED <<last_centroid, last_cross_time, last_presence_state,
                   presence_enter_time, presence_exit_start, pres_log,
                   cross_pub, obs, now, spotVars>>

\* _update_presence, the tests of lines 406 / 417, 409 and 420.
IsPresent_never == FALSE
IsPresent == last_presence_state

ConfirmElapsed(ts) ==
    ts - presence_enter_time >= presence_confirm_seconds

HoldElapsed_early(ts) ==
    ts - presence_exit_start >= presence_hold_seconds - 1
HoldElapsed(ts) ==
    ts - presence_exit_start >= presence_hold_seconds

\* _publish_presence.
PresencePayload(present, ts) ==
    [topic |-> mqtt_topics.vision_state, present |-> present,
     conf |-> IF present THEN 90 ELSE 80, ts |-> ts]

PublishPresence(present, ts) ==
    /\ pub_presence' = Append(pub_presence, PresencePayload(present, ts))
    /\ pres_log' = Append(pres_log, present)

NoPresenceEvent == UNCHANGED <<pub_presence, pres_log>>

\* _update_presence.
UpdatePresence(centroid, ts) ==
    LET in_polygon ==
            /\ centroid # NoCentroid
            /\ point_in_polygon(centroid, living_room_polygon)
    IN  IF in_polygon
          THEN IF ~IsPresent
                 THEN IF presence_enter_time = 0
                        THEN /\ presence_enter_time' = ts
                             /\ UNCHANGED <<last_presence_state,
                                            presence_exit_start>>
                             /\ NoPresenceEvent
                        ELSE IF ConfirmElapsed(ts)
                          THEN /\ last_presence_state' = TRUE
                               /\ presence_exit_start' = 0
                               /\ PublishPresence(TRUE, ts)
                               /\ UNCHANGED presence_enter_time
                          ELSE /\ UNCHANGED <<last_presence_state,
                                              presence_enter_time,
                                              presence_exit_start>>
                               /\ NoPresenceEvent
                 ELSE /\ presence_exit_start' = 0
                      /\ UNCHANGED <<last_presence_state,
                                     presence_enter_time>>
                      /\ NoPresenceEvent
          ELSE /\ presence_enter_time' = 0
               /\ IF IsPresent
                    THEN IF presence_exit_start = 0
                           THEN /\ presence_exit_start' = ts
                                /\ UNCHANGED last_presence_state
                                /\ NoPresenceEvent
                           ELSE IF HoldElapsed(ts)
                             THEN /\ last_presence_state' = FALSE
                                  /\ PublishPresence(FALSE, ts)
                                  /\ UNCHANGED presence_exit_start
                             ELSE /\ UNCHANGED <<last_presence_state,
                                                 presence_exit_start>>
                                  /\ NoPresenceEvent
                    ELSE /\ presence_exit_start' = 0
                         /\ UNCHANGED last_presence_state
                         /\ NoPresenceEvent

\* _process_frame, line 390: the cooldown test (its negation).
CooldownPassed_always(door, ts) == TRUE
CooldownPassed(door, ts) ==
    ~(ts - last_cross_time[door] < detection_cooldown)

\* _process_frame, lines 381-384: the line of a door.
DoorLine(door) == IF door = "bed" THEN bed_door ELSE bath_door

ScanDoors_bath_first(i, prev, curr, ts) ==
    IF /\ line_crossed(prev, curr, bath_door) # "none"
       /\ CooldownPassed("bath", ts)
      THEN [door |-> "bath",
            direction |-> line_crossed(prev, curr, bath_door)]
      ELSE IF /\ line_crossed(prev, curr, bed_door) # "none"
              /\ CooldownPassed("bed", ts)
        THEN [door |-> "bed",
              direction |-> line_crossed(prev, curr, bed_door)]
        ELSE [door |-> "none", direction |-> "none"]

\* _process_frame, lines 381-395: the doors are scanned in order; a door
\* whose line is not crossed, or which is within its cooldown, is skipped
\* (`continue`), the first other one is taken (`break`).
RECURSIVE ScanDoors(_, _, _, _)
ScanDoors(i, prev, curr, ts) ==
    IF i > Len(Doors)
      THEN [door |-> "none", direction |-> "none"]
      ELSE LET door_name == Doors[i]
               line == IF door_name = "bed" THEN bed_door ELSE bath_door
               direction == line_crossed(prev, curr, line)
           IN  IF direction = "none"
                 THEN ScanDoors(i + 1, prev, curr, ts)
                 ELSE IF ~CooldownPassed(door_name, ts)
                   THEN ScanDoors(i + 1, prev, curr, ts)
                   ELSE [door |-> door_name, direction |-> direction]

\* The first door, in scan order, whose line the movement crosses.
RECURSIVE FirstMatch(_, _, _)
FirstMatch(i, prev, curr) ==
    IF i > Len(Doors)
      THEN "none"
      ELSE LET line == IF Doors[i] = "bed" THEN bed_door ELSE bath_door
           IN  IF line_crossed(prev, curr, line) # "none"
                 THEN Doors[i]
                 ELSE FirstMatch(i + 1, prev, curr)

\* _handle_detection, lines 437-441.
DoorZone(door) == IF door = "bed" THEN "bedroom" ELSE "bathroom"

PirRecent(zone, ts) == ts - pir_last_on[zone] <= pir_cross_window

Confidence(zone, ts) == IF PirRecent(zone, ts) THEN 85 ELSE 70

CrossingTopic_swapped(zone, direction) ==
    IF direction = "into_living"
      THEN IF zone = "bedroom"
             THEN mqtt_topics.bed_event_in ELSE mqtt_topics.bath_event_in
      ELSE IF zone = "bedroom"
             THEN mqtt_topics.bed_event_out ELSE mqtt_topics.bath_event_out

\* _handle_detection, lines 444-455.
CrossingTopic(zone, direction) ==
    IF direction = "into_living"
      THEN IF zone = "bedroom"
             THEN mqtt_topics.bed_event_out ELSE mqtt_topics.bath_event_out
      ELSE IF zone = "bedroom"
             THEN mqtt_topics.bed_event_in ELSE mqtt_topics.bath_event_in

\* _handle_detection: the payload published for a detection with a door.
CrossingPayload(detection, centroid, ts) ==
    LET zone == DoorZone(detection.door)
    IN  [topic |-> CrossingTopic(zone, detection.direction),
         door |-> detection.door,
         ts |-> ts,
         dir |-> detection.direction,
         centroid |-> centroid,
         conf |-> Confidence(zone, ts)]

\* _process_frame, lines 368-397: no crossing is looked for on the first
\* detection, when there is no previous centroid.
Detect(prev, curr, ts) ==
    IF prev = NoCentroid
      THEN [door |-> "none", direction |-> "none"]
      ELSE ScanDoors(1, prev, curr, ts)

\* _pir_boost_active, line 322: any() walks _pir_last_on in the order
\* bedroom, bathroom and stops at the first recent pulse; the subtraction
\* raises TypeError on a stamp that is not a number.
BoostRaises ==
    \/ pir_last_on["bedroom"] = NotANumber
    \/ /\ ~(now - pir_last_on["bedroom"] <= pir_boost_window)
       /\ pir_last_on["bathroom"] = NotANumber

\* _handle_detection, line 439: `ts - pir_ts` raises TypeError on a stamp
\* that is not a number.
DetectionRaises(detection) ==
    /\ detection.door # "none"
    /\ pir_last_on[DoorZone(detection.door)] = NotANumber

\* One loop iteration after the drain: _capture_frame, _process_frame and
\* _handle_detection.  `centroid_norm` is the centroid of the largest
\* contour, or NoCentroid for a frame without an accepted detection: one
\* without contours, or one whose largest contour is too small, which has
\* called _pir_boost_active.  An exception leaves the loop and main()
\* through `finally`.
\* _process_frame, lines 345-361 and 368-369: the three early returns leave
\* _last_centroid alone; an accepted detection overwrites it before the
\* doors are looked at.
StoredCentroid_reset(centroid_norm) == centroid_norm
StoredCentroid(centroid_norm) ==
    IF centroid_norm = NoCentroid THEN last_centroid ELSE centroid_norm

ProcessFrame(centroid_norm) ==
    /\ vpc = "frame"
    /\ UNCHANGED <<pir_last_on, event_queue, pir_seen, now, spotVars>>
    /\ \/ /\ BoostRaises
          /\ ServiceStop
          /\ UNCHANGED <<last_centroid, last_cross_time,
                         last_presence_state, presence_enter_time,
                         presence_exit_start, pub_crossing, pub_presence,
                         pres_log>>
       \/ /\ centroid_norm = NoCentroid \/ ~BoostRaises
          /\ UpdatePresence(centroid_norm, now)
          /\ IF centroid_norm = NoCentroid
               THEN /\ vpc' = "drain"
                    /\ last_centroid' = StoredCentroid(centroid_norm)
                    /\ UNCHANGED <<last_cross_time, pub_crossing, mqtt,
                                   camera>>
               ELSE LET ts == now
                        detection == Detect(last_centroid, centroid_norm, ts)
                    IN  /\ last_centroid' = StoredCentroid(centroid_norm)
                        /\ last_cross_time' =
                             IF detection.door = "none"
                               THEN last_cross_time
                               ELSE [last_cross_time EXCEPT
                                       ![detection.door] = ts]
                        /\ IF DetectionRaises(detection)
                             THEN /\ ServiceStop
                                  /\ UNCHANGED pub_crossing
                             ELSE /\ vpc' = "drain"
                                  /\ UNCHANGED <<mqtt, camera>>
                                  /\ pub_crossing' =
                                       IF detection.door = "none"
                                         THEN pub_crossing
                                         ELSE Append(pub_crossing,
                                                CrossingPayload(detection,
                                                    centroid_norm, ts))

\* History of the crossings, kept beside the program's state: per door the
\* timestamps of its last two published crossings, and for the frame of
\* this iteration the first door it matched, the door it published and
\* whether the last crossing published on the matched door was at least
\* detection_cooldown ago (or there was none).
CrossHistory(centroid_norm) ==
    LET seen == centroid_norm # NoCentroid /\ last_centroid # NoCentroid
        door == IF seen
                  THEN Detect(last_centroid, centroid_norm, now).door
                  ELSE "none"
        matched == IF seen
                     THEN FirstMatch(1, last_centroid, centroid_norm)
                     ELSE "none"
    IN  /\ frame' =
             [matched |-> matched,
              door |-> door,
              due |-> /\ matched # "none"
                      /\ \/ cross_pub[matched] = << >>
                         \/ now - cross_pub[matched][Len(cross_pub[matched])]
                              >= detection_cooldown]
        /\ cross_pub' =
             IF door = "none"
               THEN cross_pub
               ELSE [cross_pub EXCEPT ![door] =
                       IF @ = << >> THEN <<now>> ELSE <<@[Len(@)], now>>]

\* History of the presence observations: the current run of consecutive
\* observations all inside ("in") or all outside ("out") the polygon, with
\* the time of the first one, whether `present` held when it began, the time
\* of the latest one and the number of presence events published before it.
PresenceHistory(centroid_norm) ==
    LET kind == IF /\ centroid_norm # NoCentroid
                   /\ point_in_polygon(centroid_norm, living_room_polygon)
                  THEN "in" ELSE "out"
    IN  obs' = IF obs.kind = kind
                 THEN [obs EXCEPT !.last = now]
                 ELSE [kind |-> kind, start |-> now,
                       from |-> last_presence_state, last |-> now,
                       logged |-> Len(pres_log)]

\* ------------------------------------------------------------------------
\* Specifications
\* ------------------------------------------------------------------------
DefaultSpotlightConfig ==
    [brightness |-> 85, rest_brightness |-> 0, light_hold_seconds |-> 2,
     auto_rest |-> TRUE,
     servo_pan_angle |-> servo_pan_angle,
     servo_tilt_angle |-> servo_tilt_angle,
     servo_rest_pan |-> servo_rest_pan,
     servo_rest_tilt |-> servo_rest_tilt,
     servo_min_angle |-> servo_min_angle,
     servo_max_angle |-> servo_max_angle]

\* The spotlight controller process.
\* Both services constructed with the default configuration.
ServicesInit == SpotInit({DefaultSpotlightConfig}) /\ VisionInit

SpotSpecInit == SpotInit(SpotlightConfig) /\ VisionInit /\ NoCall

SpotNext == BusStep \/ MainStep \/ HandleSignal \/ SpotTick

SpotSpec == SpotSpecInit /\ [][SpotNext]_vars

\* The spotlight program in either mode, over configurations whose angles
\* leave the servo range.
HardwareSpecInit == SpotInit(AngleConfigs) /\ VisionInit /\ NoCall

HardwareNext == SpotNext \/ CalibrationStep

HardwareSpec == HardwareSpecInit /\ [][HardwareNext]_vars

\* Topic lists of a configuration: ensure_topics leaves neither list empty;
\* load_config accepts repeated topics and topics present in both lists.
TopicNames ==
    {"events/person/bedroom/out", "events/person/bathroom/in",
     "events/person/both"}
TopicLists ==
    {<<a>> : a \in TopicNames} \cup
    {<<a, b>> : a \in TopicNames, b \in TopicNames}

\* _unique_topics, lines 240-247: `ordered` after the loop over topics.
RECURSIVE UniqueFrom(_, _, _)
UniqueFrom(topics, i, ordered) ==
    IF i > Len(topics) THEN ordered
    ELSE UniqueFrom(topics, i + 1,
                    IF InList(topics[i], ordered) THEN ordered
                    ELSE Append(ordered, topics[i]))

_unique_topics_all(topics) == topics
_unique_topics(topics) == UniqueFrom(topics, 1, << >>)

\* _on_connect, lines 184-188: one subscribe call per topic returned by
\* _unique_topics; result is the sequence of subscribe calls.
OnConnect ==
    /\ args # << >>
    /\ result = << >>
    /\ result' = _unique_topics(args.trigger_on_topics \o
                                 args.trigger_off_topics)
    /\ UNCHANGED <<now, visionVars, config, last_on, current_brightness,
                   lock, led_value, pan_angle, tilt_angle, pc, call, writes,
                   repeat_act, act_done, stop_event, connected, hw_shutdown,
                   msg, trigger_time, cal, args>>

TopicsSpecInit ==
    /\ ServicesInit
    /\ args \in [trigger_on_topics : TopicLists,
                  trigger_off_topics : TopicLists]
    /\ result = << >>

TopicsNext == OnConnect

TopicsSpec == TopicsSpecInit /\ [][TopicsNext]_vars

\* Pixel coordinates given to the geometry functions.
GridPoints == (0..MaxCoord) \X (0..MaxCoord)

\* Door lines: a diagonal, a horizontal and a vertical line, and a line
\* whose two ends coincide.
GridLines ==
    {<<<<0, 1>>, <<2, 3>>>>, <<<<0, 2>>, <<3, 2>>>>, <<<<1, 0>>, <<1, 3>>>>,
     <<<<1, 1>>, <<1, 1>>>>}

\* line_crossed applied to a movement and to the reverse movement.
ApplyLineCrossed ==
    /\ args # << >>
    /\ result = << >>
    /\ result' = <<float_line_crossed(args.prev, args.curr, args.line),
                   float_line_crossed(args.curr, args.prev, args.line)>>
    /\ UNCHANGED <<now, visionVars, config, last_on, current_brightness,
                   lock, led_value, pan_angle, tilt_angle, pc, call, writes,
                   repeat_act, act_done, stop_event, connected, hw_shutdown,
                   msg, trigger_time, cal, args>>

LineSpecInit ==
    /\ ServicesInit
    /\ args \in [prev : GridPoints, curr : GridPoints, line : GridLines]
    /\ result = << >>

LineNext == ApplyLineCrossed

LineSpec == LineSpecInit /\ [][LineNext]_vars

\* Polygons: the triangles over four grid points, a square with horizontal
\* edges and a concave quadrilateral.
Corners == {<<0, 0>>, <<0, 1>>, <<2, 3>>, <<3, 0>>}
GridPolygons ==
    {t \in Corners \X Corners \X Corners :
        t[1] # t[2] /\ t[2] # t[3] /\ t[1] # t[3]}
    \cup {<<<<0, 0>>, <<3, 0>>, <<3, 3>>, <<0, 3>>>>,
          <<<<0, 0>>, <<3, 0>>, <<1, 1>>, <<0, 3>>>>}

\* The vertex sequence rotated left by k and the reversed sequence.
Rotated(polygon, k) ==
    [i \in 1..Len(polygon) |-> polygon[((i + k - 1) % Len(polygon)) + 1]]
Reversed(polygon) ==
    [i \in 1..Len(polygon) |-> polygon[Len(polygon) + 1 - i]]

\* point_in_polygon applied to a polygon, to each of its cyclic rotations
\* and to its reversal.
ApplyPointInPolygon ==
    /\ args # << >>
    /\ result = << >>
    /\ result' =
         [rotated |-> [k \in 0..(Len(args.polygon) - 1) |->
                        float_point_in_polygon(args.point,
                                               Rotated(args.polygon, k))],
          reversed |-> float_point_in_polygon(args.point,
                                              Reversed(args.polygon))]
    /\ UNCHANGED <<now, visionVars, config, last_on, current_brightness,
                   lock, led_value, pan_angle, tilt_angle, pc, call, writes,
                   repeat_act, act_done, stop_event, connected, hw_shutdown,
                   msg, trigger_time, cal, args>>

PolygonSpecInit ==
    /\ ServicesInit
    /\ args \in [point : GridPoints, polygon : GridPolygons]
    /\ result = << >>

PolygonNext == ApplyPointInPolygon

PolygonSpec == PolygonSpecInit /\ [][PolygonNext]_vars

\* The main loop and the bus thread are both scheduled: a thread that can
\* take a step eventually takes one.
FairSpotSpec == SpotSpec /\ WF_vars(MainStep) /\ WF_vars(BusStep)

\* As FairSpotSpec, and a thread that waits for the lock gets it if the
\* lock is released again and again: no thread is starved by the other.
FairLockSpec ==
    /\ FairSpotSpec
    /\ SF_vars(Acquire("main"))
    /\ SF_vars(Acquire("bus"))

VisionSpecInit == ServicesInit /\ NoCall

\* The vision fusion process watching the doors, PIR messages on the bus.
\* The centroids: above the bedroom line and left of the door, just below
\* the line behind the door, just below it two door widths to the right,
\* and below the bathroom line right of that door; all outside the
\* living-room polygon.
DoorCentroids == {<<10, 26>>, <<25, 33>>, <<70, 33>>, <<88, 44>>}

\* The bus thread's callback and the loop's drain; the message and
\* the polled events are recorded only in the specification of the queue.
Receive(topic, payload) ==
    /\ Len(event_queue) < MaxQueue
    /\ PirMessage(topic, payload)
    /\ UNCHANGED <<inbound, polled>>

Drain ==
    /\ HandlePirEvents
    /\ UNCHANGED <<inbound, polled>>

CrossFrame(centroid_norm) ==
    /\ ProcessFrame(centroid_norm)
    /\ CrossHistory(centroid_norm)
    /\ UNCHANGED <<obs, inbound, polled>>

CrossTick ==
    /\ now < MaxCrossTime
    /\ now' = now + 1
    /\ UNCHANGED <<spotVars, visionVars>>

CrossNext ==
    \/ \E camera_ok \in BOOLEAN : VisionStart(camera_ok)
    \/ \E topic \in PirTopics, payload \in PirPayloads :
           Receive(topic, payload)
    \/ Drain
    \/ \E centroid \in DoorCentroids \cup {NoCentroid} : CrossFrame(centroid)
    \/ CrossTick

CrossSpec == VisionSpecInit /\ [][CrossNext]_vars

\* The vision fusion process watching the living room: centroids inside
\* the polygon, below it and left of it, none of them across a door line
\* from another.
RoomCentroids == {<<50, 60>>, <<50, 95>>, <<10, 60>>}

PresenceFrame(centroid_norm) ==
    /\ ProcessFrame(centroid_norm)
    /\ PresenceHistory(centroid_norm)
    /\ frame' = NoFrame
    /\ UNCHANGED <<cross_pub, inbound, polled>>

PresenceTick ==
    /\ now < MaxPresenceTime
    /\ now' = now + 1
    /\ UNCHANGED <<spotVars, visionVars>>

PresenceNext ==
    \/ \E camera_ok \in BOOLEAN : VisionStart(camera_ok)
    \/ Drain
    \/ \E centroid \in RoomCentroids \cup {NoCentroid} :
           PresenceFrame(centroid)
    \/ PresenceTick

PresenceSpec == VisionSpecInit /\ [][PresenceNext]_vars

\* The vision fusion process and its inbound queue: every kind of payload
\* on the PIR topics, and centroids either side of the bathroom door.
MaxPirTime == 2
\* Most messages waiting in the inbound queue there.
MaxPending == 2

QueueCentroids == {<<70, 33>>, <<88, 44>>}

LoggedReceive(topic, payload) ==
    /\ Len(event_queue) < MaxPending
    /\ PirMessage(topic, payload)
    /\ inbound' = [topic |-> topic, json |-> payload.json]
    /\ UNCHANGED polled

LoggedDrain ==
    /\ HandlePirEvents
    /\ polled' = Polled
    /\ UNCHANGED inbound

QueueFrame(centroid_norm) ==
    /\ ProcessFrame(centroid_norm)
    /\ frame' = NoFrame
    /\ UNCHANGED <<cross_pub, obs, inbound, polled>>

QueueTick ==
    /\ now < MaxPirTime
    /\ now' = now + 1
    /\ UNCHANGED <<spotVars, visionVars>>

QueueNext ==
    \/ \E camera_ok \in BOOLEAN : VisionStart(camera_ok)
    \/ \E topic \in PirTopics, payload \in PirPayloads \cup OtherPayloads :
           LoggedReceive(topic, payload)
    \/ LoggedDrain
    \/ \E centroid \in QueueCentroids \cup {NoCentroid} : QueueFrame(centroid)
    \/ QueueTick

QueueSpec == VisionSpecInit /\ [][QueueNext]_vars

\* PIR nodes that stamp their messages, the stamp being any time up to the
\* end of the run, and a configured PIR topic that does not name the
\* bedroom.
StampedPayloads ==
    {[json |-> "object", state |-> "ON", has_ts |-> TRUE, ts |-> t] :
        t \in 0..MaxPirTime}
OtherPirTopics == {"sensors/door/hall/pir"}

\* A PIR message arrives while fewer than MaxPending are queued.
PirReceive(topic, payload) ==
    /\ Len(event_queue) < MaxPending
    /\ PirMessage(topic, payload)
    /\ UNCHANGED <<inbound, polled>>

\* The fusion loop with PIR objects only, stamped or not.
PirNext ==
    \/ \E camera_ok \in BOOLEAN : VisionStart(camera_ok)
    \/ \E topic \in PirTopics \cup OtherPirTopics,
          payload \in PirPayloads \cup StampedPayloads :
           PirReceive(topic, payload)
    \/ LoggedDrain
    \/ QueueFrame(NoCentroid)
    \/ QueueTick

PirSpec == VisionSpecInit /\ [][PirNext]_vars

\* Both services from construction on: the spotlight controller runs, the
\* vision service starts.
ServicesNext ==
    \/ BusStep
    \/ MainStep
    \/ HandleSignal
    \/ SpotTick
    \/ \E camera_ok \in BOOLEAN : VisionStart(camera_ok)

ServicesSpec == VisionSpecInit /\ [][ServicesNext]_vars

\* ------------------------------------------------------------------------
\* Spotlight controller: properties
\* ------------------------------------------------------------------------
\* Positions inside a `with self._lock:` block; "d_acquire" on the main
\* thread is the call of _deactivate() made inside periodic's block.
InCritical(t) ==
    \/ pc[t] \in {"a_body", "a_orient", "a_led", "a_store",
                  "d_body", "d_led", "d_store", "d_orient", "p_body"}
    \/ t = "main" /\ pc[t] = "d_acquire"

ActivateReturns(t) ==
    pc[t] \in {"a_body", "a_store"} /\ pc'[t] = ReturnPc(t)

DeactivateReturns(t) ==
    pc[t] \in {"d_body", "d_store", "d_orient"} /\ pc'[t] = ReturnPc(t)

\* C1: once a periodic() tick has found the light active and the hold
\* window expired (it is about to call _deactivate), the deactivate
\* completes: periodic returns with the LED written to rest_brightness and
\* current_brightness at rest_brightness, so the light does not stay on.
C1_AutoOffCompletes ==
    (pc["main"] = "d_acquire")
        ~> (/\ pc["main"] = "loop"
            /\ current_brightness = config.rest_brightness
            /\ led_value = ClampBrightness(config.rest_brightness))

\* C8 as stated: when deactivate() returns the value last written to the
\* LED is rest_brightness, when activate() returns it is brightness.
C8_LedEqualsConfigured ==
    [][\A t \in Threads :
         /\ DeactivateReturns(t) => led_value' = config.rest_brightness
         /\ ActivateReturns(t) => led_value' = config.brightness]_vars

\* C8 amended: when deactivate() returns the value last written to the LED
\* is rest_brightness clamped to [0, 1], when activate() returns it is
\* brightness clamped to [0, 1].
C8_LedEqualsClamped ==
    [][\A t \in Threads :
         /\ DeactivateReturns(t) =>
              led_value' = Max(0, Min(100, config.rest_brightness))
         /\ ActivateReturns(t) =>
              led_value' = Max(0, Min(100, config.brightness))]_vars

\* An activate() and a deactivate() have both returned, the light being
\* left at rest by the deactivate.
C8_Witness ==
    /\ pc["bus"] = "idle"
    /\ call["bus"] = "deactivate"
    /\ writes["bus"] # << >>
    /\ led_value = 0
    /\ config.rest_brightness < 0

\* C9: an activate() that follows a returned activate() with no
\* deactivate() in between issues no servo write and no LED write.
C9_SecondActivateSilent ==
    (call["bus"] = "activate" /\ repeat_act) => writes["bus"] = << >>

\* The second of two activate() calls has returned, having refreshed
\* last_on only.
C9_Witness ==
    /\ call["bus"] = "activate"
    /\ repeat_act
    /\ pc["bus"] = "idle"
    /\ last_on = now
    /\ now > 0
    /\ led_value = ClampBrightness(config.brightness)

\* C10: at most one thread is inside a critical section, and the thread
\* inside it holds the lock.
C10_MutualExclusion ==
    \A t1, t2 \in Threads :
        InCritical(t1) /\ InCritical(t2) => t1 = t2 /\ lock = t1

\* The bus thread is writing the hardware inside activate() while the
\* periodic tick waits for the lock.
C10_Witness ==
    /\ pc["bus"] = "a_led"
    /\ pc["main"] = "p_acquire"
    /\ lock = "bus"

\* C11: once a termination signal has set the stop flag while the main
\* loop runs, the loop eventually exits and stop() runs: the bus loop is
\* stopped, the client disconnected and the hardware shut down.
C11_ShutdownCompletes ==
    (stop_event /\ pc["main"] \notin {"start", "failed"})
        ~> (/\ pc["main"] = "exited"
            /\ pc["bus"] = "stopped"
            /\ ~connected
            /\ hw_shutdown)

\* The payload of the last message delivered was not valid JSON.
Malformed == msg.payload \in {"not_json", "not_utf8"}

\* C18: a message whose payload is not valid JSON is dispatched on its
\* topic as a well-formed one is: activate() on a trigger-on topic,
\* otherwise deactivate() on a trigger-off topic.
C18_MalformedStillTriggers ==
    Malformed =>
        /\ InList(msg.topic, trigger_on_topics) => call["bus"] = "activate"
        /\ (/\ ~InList(msg.topic, trigger_on_topics)
            /\ InList(msg.topic, trigger_off_topics))
              => call["bus"] = "deactivate"

\* C20 as stated: whenever the lock is free after start(),
\* current_brightness is rest_brightness or brightness and equals the value
\* last written to the LED.
C20_QuiescentBrightness ==
    (lock = "free" /\ pc["main"] # "start") =>
        /\ current_brightness \in {config.rest_brightness, config.brightness}
        /\ led_value = current_brightness

\* C20 amended: whenever the lock is free after start(),
\* current_brightness is rest_brightness or brightness and the value last
\* written to the LED is current_brightness clamped to [0, 1].
C20_QuiescentClamped ==
    (lock = "free" /\ pc["main"] # "start") =>
        /\ current_brightness \in {config.rest_brightness, config.brightness}
        /\ led_value = Max(0, Min(100, current_brightness))

\* The light went on and off again and the controller is quiescent with an
\* out-of-range rest_brightness.
C20_Witness ==
    /\ lock = "free"
    /\ pc["bus"] = "idle"
    /\ pc["main"] = "loop"
    /\ call["bus"] = "deactivate"
    /\ writes["bus"] # << >>
    /\ current_brightness = config.rest_brightness
    /\ config.rest_brightness = 20
    /\ led_value = 20
    /\ config.brightness > 100

\* ------------------------------------------------------------------------
\* Vision fusion service: properties
\* ------------------------------------------------------------------------
\* C2: for every door, the timestamps of two successive published
\* crossings differ by at least detection_cooldown.
C2_CooldownBetweenCrossings ==
    \A d \in {"bed", "bath"} :
        Len(cross_pub[d]) = 2 =>
            cross_pub[d][2] - cross_pub[d][1] >= detection_cooldown

\* Two crossings of the bedroom door have been published, and PIR pulses
\* were drained in between.
C2_Witness ==
    /\ Len(cross_pub["bed"]) = 2
    /\ pir_seen["bedroom"]

\* C3: the published presence events alternate, beginning with
\* present = true.
C3_PresenceAlternates ==
    \A i \in 1..Len(pres_log) : pres_log[i] = (i % 2 = 1)

\* Presence has been published true, false and true again.
C3_Witness == pres_log = <<TRUE, FALSE, TRUE>>

\* C4: in a run of in-polygon observations that began at t0 with
\* present = false, after each observation presence=true has been published
\* (exactly once, and `present` holds) if and only if that observation is at
\* least presence_confirm_seconds after t0.
C4_ConfirmAfterDelay ==
    (obs.kind = "in" /\ ~obs.from) =>
        LET elapsed == obs.last - obs.start >= presence_confirm_seconds
        IN  /\ last_presence_state <=> elapsed
            /\ Len(pres_log) - obs.logged = (IF elapsed THEN 1 ELSE 0)
            /\ elapsed => pres_log[Len(pres_log)]

\* C5: in a run of out-of-polygon observations that began at exit_t with
\* present = true, after each observation presence=false has been published
\* (exactly once, and `present` is false) if and only if that observation is
\* at least presence_hold_seconds after exit_t; an in-polygon observation
\* while present publishes nothing and leaves `present` true.
C5_ExitHold ==
    /\ (obs.kind = "out" /\ obs.from) =>
         LET elapsed == obs.last - obs.start >= presence_hold_seconds
         IN  /\ last_presence_state <=> ~elapsed
             /\ Len(pres_log) - obs.logged = (IF elapsed THEN 1 ELSE 0)
             /\ elapsed => ~pres_log[Len(pres_log)]
             /\ ~elapsed => presence_exit_start = obs.start
    /\ (obs.kind = "in" /\ obs.from) =>
         /\ last_presence_state
         /\ Len(pres_log) = obs.logged
         /\ presence_exit_start = 0

\* Presence=false has been published at the end of an out-of-polygon run
\* that lasted presence_hold_seconds.
C5_Witness ==
    /\ obs.kind = "out"
    /\ obs.from
    /\ obs.last - obs.start = presence_hold_seconds
    /\ ~last_presence_state
    /\ pub_presence # << >>
    /\ pres_log = <<TRUE, FALSE>>

\* C6: a crossing detected on the first door a frame matches is published
\* if and only if no crossing of that door was published less than
\* detection_cooldown before it; the first crossing of a door is published.
C6_PublishedIffCooldown ==
    frame.matched # "none" => (frame.door = frame.matched <=> frame.due)

\* C7: a published crossing has conf 0.85 if an ON pulse of the door's zone
\* has been received and lies within pir_cross_window of the crossing, and
\* conf 0.70 otherwise.
C7_ConfidenceFollowsPir ==
    \A i \in 1..Len(pub_crossing) :
        LET event == pub_crossing[i]
            zone == DoorZone(event.door)
        IN  event.conf =
              IF /\ pir_seen[zone]
                 /\ event.ts - pir_last_on[zone] <= pir_cross_window
                THEN 85 ELSE 70

\* A step of the loop that processes a frame with a centroid, a previous
\* centroid being known.
MovementFrame ==
    /\ vpc = "frame"
    /\ vpc' # "frame"
    /\ last_centroid # NoCentroid
    /\ last_centroid' # NoCentroid

\* No crossing of the door has been published yet, or the last one was
\* published at least detection_cooldown ago.
Due(door) ==
    \/ cross_pub[door] = << >>
    \/ now - cross_pub[door][Len(cross_pub[door])] >= detection_cooldown

\* C12: no PIR payload that parses as JSON makes the loop stop, and a
\* drain that polls no object with state ON leaves last_on as it was.
C12_PirNeverAbortsLoop ==
    [][/\ vpc' # "aborted"
       /\ (/\ vpc = "drain"
           /\ vpc' # "drain"
           /\ \A i \in 1..Len(polled') :
                ~(polled'[i].json = "object" /\ polled'[i].state = "ON"))
            => pir_last_on' = pir_last_on]_vars

\* C13: a frame publishes at most one crossing, and when the movement
\* crosses both door lines and the bedroom door is due, the crossing
\* published is the bedroom door's.
C13_OneCrossingPerFrame ==
    [][/\ Len(pub_crossing') <= 1
       /\ (/\ MovementFrame
           /\ line_crossed(last_centroid, last_centroid', bed_door) # "none"
           /\ line_crossed(last_centroid, last_centroid', bath_door) # "none"
           /\ Due("bed")
           /\ pub_crossing' # << >>)
            => pub_crossing'[1].door = "bed"]_vars

\* A movement from above the bedroom door to below the bathroom door, which
\* passes through both door segments, has published one crossing.
C13_Witness ==
    /\ Len(pub_crossing) = 1
    /\ pub_crossing[1].door = "bed"
    /\ pub_crossing[1].centroid = <<88, 44>>
    /\ last_cross_time["bath"] = 0

\* The topic the specification gives a crossing of a door in a direction.
ExpectedTopic(door, dir) ==
    IF door = "bed"
      THEN IF dir = "into_living"
             THEN "events/person/bedroom/out"
             ELSE "events/person/bedroom/in"
      ELSE IF dir = "into_living"
             THEN "events/person/bathroom/out"
             ELSE "events/person/bathroom/in"

\* C14: every crossing published has a direction of into_living or
\* into_room and the topic of its door's zone for that direction.
C14_TopicFollowsDirection ==
    \A i \in 1..Len(pub_crossing) :
        LET e == pub_crossing[i]
        IN  /\ e.door \in {"bed", "bath"}
            /\ e.dir \in {"into_living", "into_room"}
            /\ e.topic = ExpectedTopic(e.door, e.dir)

\* A crossing into the bathroom has been published.
C14_Witness ==
    /\ Len(pub_crossing) = 1
    /\ pub_crossing[1].door = "bath"
    /\ pub_crossing[1].dir = "into_room"
    /\ pub_crossing[1].topic = "events/person/bathroom/in"

\* Twice the signed area of the triangle a, b, c.
Orient(a, b, c) ==
    (b[1] - a[1]) * (c[2] - a[2]) - (b[2] - a[2]) * (c[1] - a[1])

\* The movement from p to q passes through the segment between the two
\* endpoints of the line.
SegmentCrossed(p, q, line) ==
    /\ Orient(line[1], line[2], p) * Orient(line[1], line[2], q) < 0
    /\ Orient(p, q, line[1]) * Orient(p, q, line[2]) <= 0

\* C15: a crossing of a door is published only for a movement that passes
\* through the door's segment.
C15_CrossesSegment ==
    [][(MovementFrame /\ pub_crossing' # << >>)
         => SegmentCrossed(last_centroid, last_centroid',
                           DoorLine(pub_crossing'[1].door))]_vars

Abs(n) == IF n < 0 THEN -n ELSE n

\* C16: a published crossing has confidence 0.85 whenever an ON pulse of
\* its zone lies within pir_cross_window of it, be the pulse drained before
\* the frame or by the drain that follows it.
C16_EitherOrder ==
    [][\A i \in 1..Len(pub_crossing) :
         LET e == pub_crossing[i]
             zone == DoorZone(e.door)
         IN  /\ (/\ pir_seen[zone]
                 /\ Abs(e.ts - pir_last_on[zone]) <= pir_cross_window)
                  => e.conf = 85
             /\ (/\ pir_seen'[zone]
                 /\ Abs(e.ts - pir_last_on'[zone]) <= pir_cross_window)
                  => e.conf = 85]_vars

\* C17: when start() fails half way, what it had acquired is released:
\* the vision service's bus client is stopped when the camera fails, the
\* spotlight's hardware is shut down when the bus connect fails.
C17_ReleasedOnFailedStart ==
    /\ vpc = "failed" => mqtt \notin {"running", "dead"}
    /\ pc["main"] = "failed" => hw_shutdown

\* The payload kinds that decode as UTF-8 JSON.
JsonKinds == {"object", "array", "number", "string", "null"}

\* C19: the queue holds only payloads that decode as UTF-8 JSON; a message
\* is appended when it decodes and leaves the queue alone when it does not;
\* a drain polls the head of the queue, in order, each event once, and
\* goes on at once when the queue is empty.
C19_QueueFifoJsonOnly ==
    [][/\ \A i \in 1..Len(event_queue') : event_queue'[i].json \in JsonKinds
       /\ (vpc' = vpc /\ now' = now) =>
            IF inbound'.json \in JsonKinds
              THEN /\ Len(event_queue') = Len(event_queue) + 1
                   /\ SubSeq(event_queue', 1, Len(event_queue)) = event_queue
                   /\ event_queue'[Len(event_queue')].topic = inbound'.topic
                   /\ event_queue'[Len(event_queue')].json = inbound'.json
              ELSE event_queue' = event_queue
       /\ (vpc = "drain" /\ vpc' # "drain") =>
            /\ Len(polled') <= Len(event_queue)
            /\ polled' = SubSeq(event_queue, 1, Len(polled'))
            /\ event_queue' =
                 SubSeq(event_queue, Len(polled') + 1, Len(event_queue))
            /\ vpc' = "frame" => event_queue' = << >>
            /\ event_queue = << >> => (polled' = << >> /\ vpc' = "frame")]_vars

\* Two events from different zones were polled in the order they came, and
\* a message that does not decode has since been dropped.
C19_Witness ==
    /\ Len(polled) = 2
    /\ polled[1].topic = "sensors/door/bathroom/pir"
    /\ polled[2].topic = "sensors/door/bedroom/pir"
    /\ polled[1].state = "ON"
    /\ polled[2].state = "OFF"
    /\ inbound.json = "not_json"
    /\ event_queue = << >>
    /\ vpc = "drain"

\* C21: with servo_min_angle <= servo_max_angle, every pan and tilt value
\* that reaches the servos lies in [servo_min_angle, servo_max_angle] and
\* every LED value in [0, 1] (0..100 percent), whatever the configured
\* target and rest angles and brightness, in normal operation and in
\* calibration mode.
C21_HardwareInRange ==
    config.servo_min_angle <= config.servo_max_angle =>
        /\ pan_angle >= config.servo_min_angle
        /\ pan_angle <= config.servo_max_angle
        /\ tilt_angle >= config.servo_min_angle
        /\ tilt_angle <= config.servo_max_angle
        /\ led_value >= 0
        /\ led_value <= 100

\* The light is on in normal operation with a target pan and brightness
\* above their ranges.
C21_Witness ==
    /\ cal.mode = "none"
    /\ current_brightness = config.brightness
    /\ config.servo_pan_angle > config.servo_max_angle
    /\ config.brightness > 100
    /\ pan_angle = config.servo_max_angle
    /\ led_value = 100

\* C23: calibration mode never connects to the bus, applies the selected
\* pose (rest or target) with the brightness override, or the pose's default
\* brightness when none is given, and has shut the hardware down on every
\* exit: after the duration, on keyboard interrupt, on any other exception.
C23_CalibrationMode ==
    cal.mode # "none" =>
        /\ ~connected
        /\ pc["bus"] = "stopped"
        /\ pc["main"] \in {"cal_hold", "exited", "failed"}
        /\ pc["main"] \in {"exited", "failed"} => hw_shutdown
        /\ pc["main"] \in {"cal_hold", "exited"} =>
              /\ pan_angle = _clamp_angle(PosePan(cal.mode))
              /\ tilt_angle = _clamp_angle(PoseTilt(cal.mode))
              /\ led_value =
                   ClampBrightness(IF cal.brightness.given
                                     THEN cal.brightness.value
                                     ELSE PoseBrightness(cal.mode))

\* The target pose was held with --set-brightness 0 for the duration and
\* the hardware is shut down.
C23_Witness ==
    /\ cal.mode = "target"
    /\ cal.brightness = [given |-> TRUE, value |-> 0]
    /\ call["main"] = "cal_timeout"
    /\ pc["main"] = "exited"
    /\ led_value = 0
    /\ hw_shutdown

\* Position of the first occurrence of x in list.
FirstIndex(x, list) ==
    CHOOSE i \in 1..Len(list) :
        list[i] = x /\ \A j \in 1..(i - 1) : list[j] # x

\* C22: on bus connect the controller subscribes exactly once to each topic
\* of the union of the trigger-on and trigger-off lists, in first-seen order
\* with the trigger-on topics first, and to no topic twice.
C22_SubscribesOncePerTopic ==
    result # << >> =>
        LET all == args.trigger_on_topics \o args.trigger_off_topics IN
        /\ {result[i] : i \in 1..Len(result)} =
             {all[i] : i \in 1..Len(all)}
        /\ \A i, j \in 1..Len(result) : i # j => result[i] # result[j]
        /\ \A i, j \in 1..Len(result) :
             i < j => FirstIndex(result[i], all) < FirstIndex(result[j], all)

\* A topic repeated in the trigger-on list and present in the trigger-off
\* list is subscribed once, before the remaining trigger-off topic.
C22_Witness ==
    /\ args # << >>
    /\ args.trigger_on_topics =
         <<"events/person/both", "events/person/both">>
    /\ args.trigger_off_topics =
         <<"events/person/bathroom/in", "events/person/both">>
    /\ result = <<"events/person/both", "events/person/bathroom/in">>

\* C24: for all points prev, curr and every line L of the grid,
\* line_crossed(prev, curr, L) and line_crossed(curr, prev, L) are either
\* both none or the two opposite directions into_living and into_room.
C24_OppositeDirections ==
    result # << >> =>
        \/ result = <<"none", "none">>
        \/ result = <<"into_living", "into_room">>
        \/ result = <<"into_room", "into_living">>

\* C25: for every point and polygon of the grid, point_in_polygon returns
\* the same result for every cyclic rotation of the vertex sequence and for
\* the reversed sequence, polygons with horizontal edges included.
C25_RotationReversalInvariant ==
    result # << >> =>
        /\ \A k \in DOMAIN result.rotated :
             result.rotated[k] = result.rotated[0]
        /\ result.reversed = result.rotated[0]

\* C26: in each frame only the first door, in the order bed then bath, whose
\* line the movement crosses is subjected to the cooldown check; if that
\* door is still within its cooldown, no crossing event is produced for the
\* frame and no last_cross_time entry is modified.
C26_OnlyFirstDoorChecked ==
    [][(/\ MovementFrame
        /\ FirstMatch(1, last_centroid, last_centroid') # "none"
        /\ ~CooldownPassed(FirstMatch(1, last_centroid, last_centroid'),
                           now))
         => /\ pub_crossing' = << >>
            /\ last_cross_time' = last_cross_time]_vars

\* C27: after update_presence has processed an in-polygon observation,
\* exit_t (_presence_exit_start) equals 0, whether or not presence holds at
\* that moment, in particular right after a presence=false transition.
C27_ExitStartClearedInPolygon ==
    [][(vpc = "frame" /\ vpc' = "drain" /\ obs'.kind = "in")
         => presence_exit_start' = 0]_vars

\* C28: last_on[zone] never decreases: a payload whose ts is older than the
\* stored value does not overwrite it.
C28_LastOnMonotonic ==
    [][\A z \in Zones : pir_last_on'[z] >= pir_last_on[z]]_vars

\* The positions in the queue of the ON messages of a zone, the zone being
\* bedroom for the bedroom topic and bathroom for every other topic.
OnEvents(z) ==
    {i \in 1..Len(event_queue) :
        /\ event_queue[i].state = "ON"
        /\ (event_queue[i].topic = "sensors/door/bedroom/pir")
             <=> (z = "bedroom")}

\* C29: draining PIR messages modifies last_on only for messages whose
\* state is ON: last_on[zone] becomes the ts of the payload when it has one
\* and the current time otherwise, zone being bedroom when the topic
\* contains `bedroom` and bathroom otherwise; messages in other states
\* change nothing and the entry of the other zone is not modified.
C29_DrainEffect ==
    [][(vpc = "drain" /\ vpc' = "frame") =>
         \A z \in Zones :
            pir_last_on'[z] =
              IF OnEvents(z) = {}
                THEN pir_last_on[z]
                ELSE LET last ==
                           event_queue[CHOOSE i \in OnEvents(z) :
                                         \A j \in OnEvents(z) : j <= i]
                     IN  IF last.has_ts THEN last.ts ELSE now]_vars

\* A drain has polled an OFF message of the bedroom and then an ON message
\* stamped 1 on the topic that does not name the bedroom: the bathroom
\* entry holds the stamp, the bedroom entry is untouched.
C29_Witness ==
    /\ vpc = "frame"
    /\ now = 2
    /\ Len(polled) = 2
    /\ polled[1].topic = "sensors/door/bedroom/pir"
    /\ polled[1].state = "OFF"
    /\ polled[2].topic = "sensors/door/hall/pir"
    /\ polled[2].state = "ON"
    /\ polled[2].has_ts
    /\ polled[2].ts = 1
    /\ pir_last_on = [bedroom |-> 0, bathroom |-> 1]

\* A step of periodic() itself, before any call of _deactivate.
PeriodicStep ==
    /\ pc["main"] \in {"loop", "p_acquire", "p_body"}
    /\ pc'["main"] # pc["main"]
    /\ call'["main"] = "periodic"

\* C30: periodic() changes no state and issues no hardware write unless
\* light_hold_seconds > 0, the current brightness equals the active
\* brightness and now - last_on >= light_hold_seconds, last_on being the
\* time of the most recent trigger-on: a trigger-on received while the
\* light is active restarts the hold window, so the light is never turned
\* off automatically less than light_hold_seconds after the latest
\* trigger-on.
C30_PeriodicGuard ==
    [][/\ PeriodicStep =>
            /\ UNCHANGED <<last_on, current_brightness, led_value, pan_angle,
                           tilt_angle>>
            /\ writes'["main"] = << >>
            /\ pc'["main"] = "d_acquire" =>
                  /\ config.light_hold_seconds > 0
                  /\ current_brightness = config.brightness
                  /\ now - trigger_time >= config.light_hold_seconds
       /\ (/\ call["main"] = "periodic"
           /\ pc["main"] \in {"d_body", "d_led", "d_store", "d_orient"}
           /\ pc'["main"] # pc["main"])
            => now - trigger_time >= config.light_hold_seconds]_vars

\* periodic() has returned without acting while the light is on: a second
\* trigger-on, received while the light was active, restarted the hold
\* window less than light_hold_seconds ago.
C30_Witness ==
    /\ pc["main"] = "loop"
    /\ call["main"] = "periodic"
    /\ writes["main"] = << >>
    /\ call["bus"] = "activate"
    /\ repeat_act
    /\ pc["bus"] = "idle"
    /\ config.light_hold_seconds > 0
    /\ current_brightness = config.brightness
    /\ last_on = trigger_time
    /\ trigger_time >= config.light_hold_seconds
    /\ now - trigger_time < config.light_hold_seconds

\* C31: deactivate() called while the current brightness already equals
\* rest_brightness issues no hardware write (neither LED nor servos, even
\* with auto_rest) and changes no state; when it acts, it lowers the LED to
\* rest_brightness before any servo move and moves the servos to the rest
\* angles only if auto_rest is true.
C31_DeactivateFrame ==
    [][/\ (/\ pc["bus"] = "d_body"
           /\ pc'["bus"] # "d_body"
           /\ current_brightness = config.rest_brightness)
            => /\ pc'["bus"] = "idle"
               /\ writes'["bus"] = << >>
               /\ UNCHANGED <<current_brightness, last_on, led_value,
                              pan_angle, tilt_angle>>
       /\ (DeactivateReturns("bus") /\ writes'["bus"] # << >>)
            => /\ writes'["bus"] =
                    IF config.auto_rest THEN <<"led", "servo">>
                                        ELSE <<"led">>
               /\ led_value' = ClampBrightness(config.rest_brightness)
               /\ current_brightness' = config.rest_brightness
               /\ config.auto_rest =>
                     /\ pan_angle' = _clamp_angle(config.servo_rest_pan)
                     /\ tilt_angle' = _clamp_angle(config.servo_rest_tilt)
       /\ (pc["bus"] = "d_orient" /\ pc'["bus"] # "d_orient")
            => /\ config.auto_rest
               /\ writes["bus"] = <<"led">>]_vars

\* A deactivate() that found the light on has returned with auto_rest: the
\* LED was written first, then the servos.
C31_Witness ==
    /\ call["bus"] = "deactivate"
    /\ pc["bus"] = "idle"
    /\ config.auto_rest
    /\ writes["bus"] = <<"led", "servo">>
    /\ current_brightness = config.rest_brightness
    /\ led_value = ClampBrightness(config.rest_brightness)
    /\ pan_angle = _clamp_angle(config.servo_rest_pan)

\* The thread is inside a call of _activate, _deactivate or periodic.
InCall(t) ==
    pc[t] \in {"a_acquire", "a_body", "a_orient", "a_led", "a_store",
               "d_acquire", "d_body", "d_led", "d_store", "d_orient",
               "p_acquire", "p_body"}

\* C32: every call of activate(), deactivate() and periodic() eventually
\* returns: no thread waits for ever for the spotlight lock, and no thread
\* tries to acquire the lock while it holds it.
C32_EveryCallReturns ==
    \A t \in Threads : InCall(t) ~> ~InCall(t)


\* The vision fusion process watching the doors with no PIR traffic, the
\* frames recorded: `obs` holds, after a frame with an accepted detection
\* (kind "seen"), the time of the accepted detection before it (start),
\* whether there was one (from), the time of this one (last) and the number
\* of frames without an accepted detection between the two (logged, counted
\* up to MaxGap); after a frame without one (kind "gap") the number of such
\* frames since the last accepted detection.
MaxGap == 2

GapHistory(centroid_norm) ==
    obs' = IF centroid_norm = NoCentroid
             THEN [obs EXCEPT
                     !.kind = IF @ = "none" THEN "none" ELSE "gap",
                     !.logged = IF obs.kind # "gap"
                                  THEN 1
                                  ELSE IF @ < MaxGap THEN @ + 1 ELSE @]
             ELSE [kind |-> "seen",
                   start |-> obs.last,
                   from |-> obs.kind # "none",
                   last |-> now,
                   logged |-> IF obs.kind = "gap" THEN obs.logged ELSE 0]

GapFrame(centroid_norm) ==
    /\ ProcessFrame(centroid_norm)
    /\ CrossHistory(centroid_norm)
    /\ GapHistory(centroid_norm)
    /\ UNCHANGED <<inbound, polled>>

GapNext ==
    \/ \E camera_ok \in BOOLEAN : VisionStart(camera_ok)
    \/ Drain
    \/ \E centroid \in DoorCentroids \cup {NoCentroid} : GapFrame(centroid)
    \/ CrossTick

GapSpec == VisionSpecInit /\ [][GapNext]_vars

\* C33: last_centroid, once set, is never reset to none; a frame without an
\* accepted detection leaves it as it was and publishes no crossing; a frame
\* with an accepted detection overwrites it with that detection's centroid,
\* whatever the outcome of the door test, and the crossing it publishes, if
\* any, is the one line_crossed gives for the movement from the centroid
\* stored before the frame (after a gap: the one seen before the gap) to the
\* new one; such a movement across a door that is past its cooldown is
\* published although frames without a detection lay in between.
C33_LastCentroidKept ==
    [][/\ last_centroid # NoCentroid => last_centroid' # NoCentroid
       /\ \A c \in DoorCentroids \cup {NoCentroid} :
            GapFrame(c) =>
              IF c = NoCentroid
                THEN /\ last_centroid' = last_centroid
                     /\ pub_crossing' = pub_crossing
                ELSE /\ last_centroid' = c
                     /\ pub_crossing' # pub_crossing =>
                          LET e == pub_crossing'[Len(pub_crossing')]
                          IN  /\ last_centroid # NoCentroid
                              /\ e.centroid = c
                              /\ e.dir = line_crossed(last_centroid, c,
                                                      DoorLine(e.door))
                     /\ (/\ obs.kind = "gap"
                         /\ \E d \in {"bed", "bath"} :
                              /\ line_crossed(last_centroid, c, DoorLine(d))
                                   # "none"
                              /\ CooldownPassed(d, now))
                          => pub_crossing' # pub_crossing]_vars

\* A crossing of the bedroom door has been published for a detection that
\* came MaxGap or more frames without a detection, and a full second, after
\* the detection before it; the centroid of the new detection is stored.
C33_Witness ==
    /\ vpc = "drain"
    /\ obs.kind = "seen"
    /\ obs.from
    /\ obs.logged = MaxGap
    /\ obs.last - obs.start >= 2
    /\ Len(pub_crossing) = 1
    /\ pub_crossing[1].door = "bed"
    /\ last_centroid = pub_crossing[1].centroid


\* The positions of a thread inside activate().
ActivatePcs == {"a_acquire", "a_body", "a_orient", "a_led", "a_store"}

\* C34: a message on a topic listed both in trigger_on_topics and in
\* trigger_off_topics makes the callback call activate(), and the bus thread
\* stays in that one call until it returns, never entering deactivate(); a
\* message on a topic in neither list changes nothing of the controller's
\* state and writes nothing to the hardware.
C34_TopicDispatch ==
    [][/\ \A topic \in SpotTopics, payload \in SpotPayloads :
            OnMessage(topic, payload) =>
              /\ (/\ InList(topic, trigger_on_topics)
                  /\ InList(topic, trigger_off_topics))
                   => /\ call'["bus"] = "activate"
                      /\ pc'["bus"] = "a_acquire"
              /\ (/\ ~InList(topic, trigger_on_topics)
                  /\ ~InList(topic, trigger_off_topics))
                   => /\ writes'["bus"] = << >>
                      /\ UNCHANGED <<pc, config, last_on, current_brightness,
                                     lock, led_value, pan_angle, tilt_angle,
                                     stop_event, connected, hw_shutdown>>
       /\ (call["bus"] = "activate" /\ pc["bus"] \in ActivatePcs)
            => /\ call'["bus"] = "activate"
               /\ pc'["bus"] \in ActivatePcs \cup {"idle"}]_vars

====
